---------------------------- MODULE Spec2Model ----------------------------
(***************************************************************************)
(* A model of pytest_cov/engine.py: the coverage controllers Central,      *)
(* DistMaster and DistWorker, the environment channel they write, the      *)
(* sideband mappings exchanged between master and workers, and the data    *)
(* files the coverage sessions leave on disk.                              *)
(*                                                                         *)
(* Strings that the code takes apart (paths, the joined source list) are   *)
(* sequences of one-character strings; strings that are only compared      *)
(* (host names, node identifiers) are TLA+ strings.                        *)
(*                                                                         *)
(* The coverage engine (coverage.Coverage, CoverageData) is an external    *)
(* collaborator: a session object with start, stop, erase, load, save and  *)
(* combine, modelled at its interface.                                     *)
(***************************************************************************)
EXTENDS Integers, Sequences, FiniteSets, TLC

(***************************************************************************)
(* Bounds of the model.                                                    *)
(***************************************************************************)
\* Lines of the measured file that a process may hit: 1..MaxLine.
MaxLine == 1
\* random.randint(0, 999999) of testnodedown is drawn from 0..MaxRand.
MaxRand == 1
\* Longest source root drawn in the worker-start specification.
MaxPathLen == 4

(***************************************************************************)
(* Processes, hosts, directories.                                          *)
(***************************************************************************)
\* The process that runs Central or DistMaster.
M == "c0"
\* The worker processes of a distributed run.
Workers == {"w1", "w2"}
Procs == {M} \cup Workers
Hosts == {"A", "B"}
DirM == <<"/", "m">>
DirW == <<"/", "w">>
TopDirs == {DirM, DirW}
\* The characters paths are made of.
Alphabet == {"/", "m", "w"}
\* os.pathsep
pathsep == <<":">>
\* coverage's default data file name (".coverage"), relative to the cwd.
DataFileName == <<"d">>
\* The config file name (".coveragerc"), relative to the cwd.
RcName == <<"c">>
\* Python's None, where the other values are strings.
None == "None"
\* cov_source is None ("measure everything") or a list of source roots.
NoSource == [is_none |-> TRUE, roots |-> <<>>]
SourceList(roots) == [is_none |-> FALSE, roots |-> roots]
\* What summary() returned: nothing yet, None, or the totals of the report.
NoCall == <<"NoCall">>
ReturnedNone == <<"None">>
Totals(n) == <<"totals", n>>
\* data_suffix of a session: None, True, or the suffix itself.
SuffixNone == <<>>
SuffixTrue == <<"True">>

\* The node identifier a worker's controller is constructed with.
nodeid == [w \in Workers |-> IF w = "w1" THEN "gw0" ELSE "gw1"]
\* os.getpid() of each process.
pid == [p \in Procs |-> IF p = M THEN 100 ELSE IF p = "w1" THEN 101 ELSE 102]
\* sys.platform / sys.version_info of the interpreter on each host, which is
\* also what node.gateway._rinfo() reports for a worker on that host.
rinfo == [h \in Hosts |->
            IF h = "A"
            THEN [platform |-> "linux", version_info |-> <<3, 6, 1, "final", 0>>]
            ELSE [platform |-> "darwin", version_info |-> <<2, 7, 9, "final", 0>>]]

(***************************************************************************)
(* String and path functions.                                              *)
(***************************************************************************)
IsPrefix(pre, s) == Len(pre) <= Len(s) /\ SubSeq(s, 1, Len(pre)) = pre

\* Python's str.replace(old, new) for a non-empty old: every non-overlapping
\* occurrence of old, scanning from the left, is replaced.
RECURSIVE str_replace(_, _, _)
str_replace(s, old, new) ==
    IF Len(s) < Len(old) THEN s
    ELSE IF SubSeq(s, 1, Len(old)) = old
         THEN new \o str_replace(SubSeq(s, Len(old) + 1, Len(s)), old, new)
         ELSE <<s[1]>> \o str_replace(Tail(s), old, new)

\* Python's sep.join(list).
RECURSIVE str_join(_, _)
str_join(sep, list) ==
    IF list = <<>> THEN <<>>
    ELSE IF Len(list) = 1 THEN list[1]
    ELSE list[1] \o sep \o str_join(sep, Tail(list))

\* Repeated slashes collapsed to one.
RECURSIVE CollapseSlashes(_)
CollapseSlashes(s) ==
    IF Len(s) < 2 THEN s
    ELSE IF s[1] = "/" /\ s[2] = "/" THEN CollapseSlashes(Tail(s))
    ELSE <<s[1]>> \o CollapseSlashes(Tail(s))

\* os.path.normpath for POSIX paths without "." and ".." components: repeated
\* slashes are collapsed (exactly two leading slashes are kept), a trailing
\* slash is dropped.
normpath(s) ==
    LET two == Len(s) >= 2 /\ s[1] = "/" /\ s[2] = "/"
                  /\ (Len(s) = 2 \/ s[3] # "/")
        c == CollapseSlashes(s)
        t == IF Len(c) > 1 /\ c[Len(c)] = "/" THEN SubSeq(c, 1, Len(c) - 1) ELSE c
    IN IF two /\ t # <<"/">> THEN <<"/">> \o t ELSE IF two THEN <<"/", "/">> ELSE t

\* os.path.abspath(path) in a process whose cwd is cwd.
abspath(cwd, path) ==
    IF path # <<>> /\ path[1] = "/" THEN normpath(path)
    ELSE normpath(cwd \o <<"/">> \o path)

\* '%s' % n, and '%d' % n, for a natural number n: its decimal digits.
Digits == <<"0", "1", "2", "3", "4", "5", "6", "7", "8", "9">>
RECURSIVE str_int(_)
str_int(n) ==
    IF n < 10 THEN <<Digits[n + 1]>>
    ELSE str_int(n \div 10) \o <<Digits[(n % 10) + 1]>>

\* The zero padding of '%06d': s filled with zeros on the left up to width.
RECURSIVE zfill(_, _)
zfill(s, width) == IF Len(s) >= width THEN s ELSE zfill(<<"0">> \o s, width)

\* All sequences over S of length 1..n.
RECURSIVE SeqsUpTo(_, _)
SeqsUpTo(S, n) ==
    IF n = 0 THEN {}
    ELSE LET shorter == SeqsUpTo(S, n - 1)
         IN {<<c>> : c \in S} \cup shorter
              \cup {s \o <<c>> : s \in shorter, c \in S}

(***************************************************************************)
(* Datasets: the set of (file, line) keys that were hit.                   *)
(***************************************************************************)
Keys == {"x.py"} \X (1..MaxLine)
\* What a previous run left in a canonical data file.
StaleData == {<<"old.py", 1>>}

RECURSIVE SortedSeq(_)
SortedSeq(S) ==
    IF S = {} THEN <<>>
    ELSE LET m == CHOOSE x \in S : \A y \in S : x <= y
         IN <<m>> \o SortedSeq(S \ {m})

\* CoverageData.write_fileobj: per measured file, the sorted list of its lines.
write_fileobj(data) ==
    [f \in {k[1] : k \in data} |-> SortedSeq({k[2] : k \in {j \in data : j[1] = f}})]

\* CoverageData.read_fileobj: the keys a serialized buffer holds.
read_fileobj(buff) ==
    UNION {{<<f, buff[f][i]>> : i \in 1..Len(buff[f])} : f \in DOMAIN buff}

(***************************************************************************)
(* Dictionaries (os.environ, workerinput, workeroutput, the file system)   *)
(* are functions whose domain is the set of keys present.                  *)
(***************************************************************************)
EmptyDict == [k \in {} |-> None]
Put(d, key, val) == [k \in DOMAIN d \cup {key} |-> IF k = key THEN val ELSE d[k]]
Pop(d, key) == [k \in DOMAIN d \ {key} |-> d[k]]
Update(d, e) == [k \in DOMAIN d \cup DOMAIN e |-> IF k \in DOMAIN e THEN e[k] ELSE d[k]]

EnvVars == {"COV_CORE_SOURCE", "COV_CORE_CONFIG", "COV_CORE_DATAFILE", "COV_CORE_BRANCH"}

VARIABLES
    variant,        \* the class of the controller in process M
    cov_source,     \* [p] self.cov_source: None or a list of source roots
    cov_report,     \* self.cov_report (truthy or not)
    cov_config,     \* [p] self.cov_config
    cov_append,     \* self.cov_append
    cov_branch,     \* self.cov_branch
    host,           \* [p] socket.gethostname()
    topdir,         \* [p] self.topdir, the cwd of the process
    rcfiles,        \* the config files that exist: <<host, absolute path>>
    rsyncdir,       \* config.option.rsyncdir of the master
    pc,             \* [p] lifecycle position of the controller of p
    env,            \* [p] os.environ of the process
    start_env,      \* [p] os.environ as start() left it (history)
    cov,            \* [p] which session self.cov refers to
    sess,           \* [id] the coverage sessions
    fs,             \* data files on disk: [host, path, suffix] -> dataset
    workerinput,    \* [w] sideband input, master -> worker
    workeroutput,   \* [w] sideband output, worker -> master
    is_collocated,  \* [w] self.is_collocated
    node_descs,     \* self.node_descs of the controller in M
    failed_workers, \* self.failed_workers of the controller in M
    down,           \* workers whose disconnect the master has processed
    stream,         \* [p] what summary() wrote to its stream
    result          \* what the most recent call of summary() returned

\* The state of one use of the scoped helper _backup(obj, attr).
VARIABLES
    heap,           \* [address] the items of the list object at that address
    attr,           \* the address obj.attr refers to
    backup,         \* the local variable backup of _backup: an address, or None
    entry,          \* obj.attr and its items when the scope was entered (history)
    bpc             \* position of the with statement

\* The variables of the controllers.
ctl_vars == <<variant, cov_source, cov_report, cov_config, cov_append, cov_branch,
              host, topdir, rcfiles, rsyncdir, pc, env, start_env, cov, sess, fs,
              workerinput, workeroutput, is_collocated, node_descs, failed_workers,
              down, stream, result>>
\* The variables of a _backup scope.
backup_vars == <<heap, attr, backup, entry, bpc>>

vars == <<ctl_vars, backup_vars>>

\* The run configuration and the placement of the processes never change, and
\* no operation of a controller enters a _backup scope.
config_vars == <<variant, cov_report, cov_append, cov_branch, host, topdir, rcfiles,
                 backup_vars>>


(***************************************************************************)
(* The coverage session (coverage.Coverage), at its interface.             *)
(***************************************************************************)
SessionIds == {"primary", "combining"} \cup Workers
NoSession == [exists |-> FALSE, data |-> {}, started |-> FALSE,
              config_data_file |-> <<>>, data_file |-> <<>>,
              data_suffix |-> SuffixNone, source |-> NoSource, branch |-> FALSE,
              config_file |-> <<>>, paths_source |-> <<>>]

\* coverage.Coverage(source=, branch=, data_suffix=, data_file=, config_file=)
\* constructed in process p. Without a data_file argument (<<>> here) the
\* session takes the configured file name and resolves it against the cwd.
Coverage(p, source, branch, data_suffix, data_file, config_file) ==
    [exists |-> TRUE, data |-> {}, started |-> FALSE,
     config_data_file |-> IF data_file = <<>> THEN DataFileName ELSE data_file,
     data_file |-> abspath(topdir[p], IF data_file = <<>> THEN DataFileName ELSE data_file),
     data_suffix |-> data_suffix, source |-> source, branch |-> branch,
     config_file |-> config_file, paths_source |-> <<>>]

\* The suffix a session's save() appends: none, the one it was given, or
\* (data_suffix=True) one made unique by host name and process id.
SaveSuffix(p, s) ==
    IF s.data_suffix = SuffixNone THEN <<>>
    ELSE IF s.data_suffix = SuffixTrue THEN <<host[p], pid[p]>>
    ELSE s.data_suffix

FileKey(h, path, suffix) == [host |-> h, path |-> path, suffix |-> suffix]
CanonicalKey(p, s) == FileKey(host[p], s.data_file, <<>>)

\* The suffixed partial files beside the canonical data file of s.
Partials(p, s, files) ==
    {k \in DOMAIN files : k.host = host[p] /\ k.path = s.data_file /\ k.suffix # <<>>}

Remove(files, keys) == [k \in DOMAIN files \ keys |-> files[k]]

cov_start(s) == [s EXCEPT !.started = TRUE]
cov_stop(s) == [s EXCEPT !.started = FALSE]
\* erase(): forget the measured data and remove the data file.
cov_erase_data(s) == [s EXCEPT !.data = {}]
cov_erase_files(p, s, files) == Remove(files, {CanonicalKey(p, s)})
\* load(): read the data file, when there is one.
cov_load(p, s, files) ==
    IF CanonicalKey(p, s) \in DOMAIN files
    THEN [s EXCEPT !.data = files[CanonicalKey(p, s)]]
    ELSE s
\* save(): write the session's data to its (suffixed) data file.
cov_save(p, s, files) == Put(files, FileKey(host[p], s.data_file, SaveSuffix(p, s)), s.data)
\* combine(): merge every suffixed partial into the session, and remove them.
cov_combine_data(p, s, files) ==
    [s EXCEPT !.data = s.data \cup UNION {files[k] : k \in Partials(p, s, files)}]
cov_combine_files(p, s, files) == Remove(files, Partials(p, s, files))

\* The session self.cov of the controller in p.
Cov(p) == sess[cov[p]]

(***************************************************************************)
(* CovController: the base class.                                          *)
(***************************************************************************)
exists(p, path) == <<host[p], abspath(topdir[p], path)>> \in rcfiles

\* set_env, on the environment e of process p.
set_env(e, p, source, config, s) ==
    LET e1 == Put(e, "COV_CORE_SOURCE",
                  IF source.is_none THEN pathsep ELSE str_join(pathsep, source.roots))
        config_file == abspath(topdir[p], config)
        e2 == Put(e1, "COV_CORE_CONFIG",
                  IF exists(p, config_file) THEN config_file ELSE pathsep)
        e3 == Put(e2, "COV_CORE_DATAFILE", abspath(topdir[p], s.config_data_file))
    IN IF cov_branch THEN Put(e3, "COV_CORE_BRANCH", "enabled") ELSE e3

unset_env(e) ==
    Pop(Pop(Pop(Pop(e, "COV_CORE_SOURCE"), "COV_CORE_CONFIG"),
            "COV_CORE_DATAFILE"), "COV_CORE_BRANCH")

get_node_desc(platform, version_info) ==
    <<"platform", platform, "python", SubSeq(version_info, 1, 5)>>

\* pause(): stop measuring and clear the environment channel.
pause(p) ==
    /\ pc[p] = "started"
    /\ sess' = [sess EXCEPT ![cov[p]] = cov_stop(@)]
    /\ env' = [env EXCEPT ![p] = unset_env(@)]
    /\ pc' = [pc EXCEPT ![p] = "paused"]
    /\ UNCHANGED <<config_vars, cov_source, cov_config, rsyncdir, start_env, cov, fs,
                   workerinput, workeroutput, is_collocated, node_descs,
                   failed_workers, down, stream, result>>

\* resume(): measure again and write the environment channel.
resume(p) ==
    /\ pc[p] = "paused"
    /\ sess' = [sess EXCEPT ![cov[p]] = cov_start(@)]
    /\ env' = [env EXCEPT ![p] = set_env(@, p, cov_source[p], cov_config[p], Cov(p))]
    /\ pc' = [pc EXCEPT ![p] = "started"]
    /\ UNCHANGED <<config_vars, cov_source, cov_config, rsyncdir, start_env, cov, fs,
                   workerinput, workeroutput, is_collocated, node_descs,
                   failed_workers, down, stream, result>>

\* The measured program runs in p and hits key k while the session measures.
Measure(p, k) ==
    /\ pc[p] = "started"
    /\ Cov(p).started
    /\ sess' = [sess EXCEPT ![cov[p]].data = @ \cup {k}]
    /\ UNCHANGED <<config_vars, cov_source, cov_config, rsyncdir, pc, env, start_env,
                   cov, fs, workerinput, workeroutput, is_collocated, node_descs,
                   failed_workers, down, stream, result>>

\* erase_or_load_data with the test of the append flag inverted.
erase_or_load_inverted(p, s, files) ==
    IF cov_append THEN cov_erase_data(s) ELSE cov_load(p, s, files)

\* "Erase or load any previous coverage data": load() with the append flag,
\* erase() without it.
erase_or_load_data(p, s, files) ==
    IF cov_append THEN cov_load(p, s, files) ELSE cov_erase_data(s)
erase_or_load_files(p, s, files) ==
    IF cov_append THEN files ELSE cov_erase_files(p, s, files)

\* sep(stream, s, txt) on a stream that has a sep method.
sep(st, s, txt) == Append(st, <<"sep", s, txt>>)

\* sorted(self.node_descs): "platform darwin..." sorts before "platform linux...".
DescRank(d) == IF d[2] = "darwin" THEN 1 ELSE 2
RECURSIVE sorted_descs(_)
sorted_descs(S) ==
    IF S = {} THEN <<>>
    ELSE LET d == CHOOSE x \in S : \A y \in S : DescRank(x) <= DescRank(y)
         IN <<d>> \o sorted_descs(S \ {d})

RECURSIVE sep_each(_, _, _)
sep_each(st, s, txts) ==
    IF txts = <<>> THEN st ELSE sep_each(sep(st, s, txts[1]), s, Tail(txts))

RECURSIVE write_each(_, _)
write_each(st, nodes) ==
    IF nodes = <<>> THEN st
    ELSE write_each(Append(st, <<"write", nodes[1]>>), Tail(nodes))

\* summary_stream without the loop over the failed workers.
summary_stream_without_worker_lines(p, st) ==
    LET header == IF ~cov_report THEN st
                  ELSE IF Cardinality(node_descs) = 1
                       THEN sep(st, "-", <<"coverage: ", CHOOSE d \in node_descs : TRUE>>)
                       ELSE sep_each(sep(st, "-", <<"coverage">>), " ",
                                     sorted_descs(node_descs))
        report == Append(header, <<"report", Cardinality(Cov(p).data)>>)
    IN IF cov_report /\ failed_workers # <<>>
       THEN Append(sep(report, "-", <<"coverage: failed workers">>),
                   <<"write", "The following workers failed to return coverage data">>)
       ELSE report

\* The stream after CovController.summary.
summary_stream(p, st) ==
    LET header == IF ~cov_report THEN st
                  ELSE IF Cardinality(node_descs) = 1
                       THEN sep(st, "-", <<"coverage: ", CHOOSE d \in node_descs : TRUE>>)
                       ELSE sep_each(sep(st, "-", <<"coverage">>), " ",
                                     sorted_descs(node_descs))
        report == Append(header, <<"report", Cardinality(Cov(p).data)>>)
    IN IF cov_report /\ failed_workers # <<>>
       THEN write_each(Append(sep(report, "-", <<"coverage: failed workers">>),
                              <<"write", "The following workers failed to return coverage data">>),
                       failed_workers)
       ELSE report

\* CovController.summary(cov_fail_under, stream) in Central and DistMaster.
summary(p) ==
    /\ p = M
    /\ pc[p] = "finished"
    /\ stream[p] = <<>>
    /\ stream' = [stream EXCEPT ![p] = summary_stream(p, @)]
    /\ result' = Totals(Cardinality(Cov(p).data))
    /\ UNCHANGED <<config_vars, cov_source, cov_config, rsyncdir, pc, env, start_env,
                   cov, sess, fs, workerinput, workeroutput, is_collocated,
                   node_descs, failed_workers, down>>

(***************************************************************************)
(* Central: one process, no workers.                                       *)
(***************************************************************************)
Central_start ==
    /\ variant = "Central"
    /\ pc[M] = "created"
    /\ LET c0 == Coverage(M, cov_source[M], cov_branch, SuffixNone, <<>>, cov_config[M])
           combining == Coverage(M, cov_source[M], cov_branch, SuffixNone,
                                 abspath(topdir[M], c0.config_data_file), cov_config[M])
           primary == cov_start(erase_or_load_data(M, c0, fs))
       IN /\ sess' = [sess EXCEPT !["primary"] = primary, !["combining"] = combining]
          /\ fs' = erase_or_load_files(M, c0, fs)
          /\ env' = [env EXCEPT ![M] = set_env(@, M, cov_source[M], cov_config[M], primary)]
    /\ cov' = [cov EXCEPT ![M] = "primary"]
    /\ start_env' = [start_env EXCEPT ![M] = env'[M]]
    /\ pc' = [pc EXCEPT ![M] = "started"]
    /\ UNCHANGED <<config_vars, cov_source, cov_config, rsyncdir, workerinput,
                   workeroutput, is_collocated, node_descs, failed_workers, down,
                   stream, result>>

\* Central.finish up to the load of the combining session: unset_env, stop,
\* save, switch self.cov to the combining session, load.
Central_finish_load ==
    /\ variant = "Central"
    /\ pc[M] = "started"
    /\ env' = [env EXCEPT ![M] = unset_env(@)]
    /\ LET primary == cov_stop(sess["primary"])
           files == cov_save(M, primary, fs)
       IN /\ fs' = files
          /\ sess' = [sess EXCEPT !["primary"] = primary,
                                  !["combining"] = cov_load(M, @, files)]
    /\ cov' = [cov EXCEPT ![M] = "combining"]
    /\ pc' = [pc EXCEPT ![M] = "combining"]
    /\ UNCHANGED <<config_vars, cov_source, cov_config, rsyncdir, start_env,
                   workerinput, workeroutput, is_collocated, node_descs,
                   failed_workers, down, stream, result>>

\* The rest of Central.finish: combine, save, record the local node description.
Central_finish_combine ==
    /\ variant = "Central"
    /\ pc[M] = "combining"
    /\ LET combined == cov_combine_data(M, Cov(M), fs)
       IN /\ sess' = [sess EXCEPT ![cov[M]] = combined]
          /\ fs' = cov_save(M, combined, cov_combine_files(M, Cov(M), fs))
    /\ node_descs' = node_descs \cup
          {get_node_desc(rinfo[host[M]].platform, rinfo[host[M]].version_info)}
    /\ pc' = [pc EXCEPT ![M] = "finished"]
    /\ UNCHANGED <<config_vars, cov_source, cov_config, rsyncdir, env, start_env, cov,
                   workerinput, workeroutput, is_collocated, failed_workers, down,
                   stream, result>>

(***************************************************************************)
(* DistMaster: the master of a distributed run.                            *)
(***************************************************************************)
DistMaster_start ==
    /\ variant = "DistMaster"
    /\ pc[M] = "created"
    /\ rsyncdir' = IF cov_config[M] # <<>> /\ exists(M, cov_config[M])
                   THEN Append(rsyncdir, cov_config[M]) ELSE rsyncdir
    /\ LET c0 == Coverage(M, cov_source[M], cov_branch, SuffixNone, <<>>, cov_config[M])
           combining == Coverage(M, cov_source[M], cov_branch, SuffixNone,
                                 abspath(topdir[M], c0.config_data_file), cov_config[M])
           primary == cov_start(erase_or_load_data(M, c0, fs))
       IN /\ sess' = [sess EXCEPT
                        !["primary"] = [primary EXCEPT !.paths_source = <<topdir[M]>>],
                        !["combining"] = combining]
          /\ fs' = erase_or_load_files(M, c0, fs)
    /\ cov' = [cov EXCEPT ![M] = "primary"]
    /\ start_env' = [start_env EXCEPT ![M] = env[M]]
    /\ pc' = [pc EXCEPT ![M] = "started"]
    /\ UNCHANGED <<config_vars, cov_source, cov_config, env, workerinput, workeroutput,
                   is_collocated, node_descs, failed_workers, down, stream, result>>

\* node.nodemanager.roots: the directories the orchestrator synchronizes.
RsyncRoots == <<DirM>>

configure_node(w) ==
    /\ variant = "DistMaster"
    /\ pc[M] \in {"started", "paused"}
    /\ pc[w] = "created"
    /\ DOMAIN workerinput[w] = {}
    /\ workerinput' = [workerinput EXCEPT ![w] =
            Update(@, [cov_master_host |-> host[M],
                       cov_master_topdir |-> topdir[M],
                       cov_master_rsync_roots |-> RsyncRoots])]
    /\ UNCHANGED <<config_vars, cov_source, cov_config, rsyncdir, pc, env, start_env,
                   cov, sess, fs, workeroutput, is_collocated, node_descs,
                   failed_workers, down, stream, result>>

\* worker_failed testing for the payload instead of the node identifier.
worker_failed_without_payload(output) == "cov_worker_data" \notin DOMAIN output

\* worker_failed with the membership test inverted.
worker_failed_inverted(output) == "cov_worker_node_id" \in DOMAIN output

\* "If worker doesn't return any data then it is likely that this plugin
\* didn't get activated on the worker side."
worker_failed(output) == "cov_worker_node_id" \notin DOMAIN output

\* data_suffix without the worker's node identifier.
data_suffix_without_node_id(hostname, getpid, randint, node_id) ==
    <<hostname, ".">> \o str_int(getpid) \o <<".">> \o zfill(str_int(randint), 6)

\* data_suffix with the random number alone.
data_suffix_random_only(hostname, getpid, randint, node_id) ==
    zfill(str_int(randint), 6)

\* The suffix of the file a non-collocated worker's payload is saved under:
\* '%s.%s.%06d.%s' % (hostname, pid, random number, node identifier). The
\* host name and the node identifier are one piece each.
data_suffix(hostname, getpid, randint, node_id) ==
    <<hostname, ".">> \o str_int(getpid) \o <<".">> \o zfill(str_int(randint), 6)
        \o <<".", node_id>>

\* DistMaster_testnodedown without the return after the append to
\* failed_workers: the node description is recorded for a failed worker too.
DistMaster_testnodedown_without_return(w, r) ==
    /\ variant = "DistMaster"
    /\ pc[M] \in {"started", "paused"}
    /\ pc[w] \in {"finished", "crashed"}
    /\ w \notin down
    /\ down' = down \cup {w}
    /\ LET output == workeroutput[w]
       IN /\ failed_workers' = IF worker_failed(output)
                               THEN Append(failed_workers, w) ELSE failed_workers
          /\ IF "cov_worker_data" \in DOMAIN output
             THEN LET c0 == Coverage(M, cov_source[M], cov_branch,
                                     data_suffix(host[M], pid[M], r,
                                                 output["cov_worker_node_id"]),
                                     <<>>, cov_config[M])
                      c1 == cov_start(c0)
                      data == read_fileobj(output["cov_worker_data"])
                      c2 == cov_stop([c1 EXCEPT !.data = @ \cup data])
                  IN /\ fs' = cov_save(M, c2, fs)
                     /\ sess' = [sess EXCEPT ![cov[M]].paths_source =
                                   Append(@, output["cov_worker_path"])]
             ELSE UNCHANGED <<sess, fs>>
          /\ node_descs' = node_descs \cup
                {get_node_desc(rinfo[host[w]].platform, rinfo[host[w]].version_info)}
    /\ UNCHANGED <<config_vars, cov_source, cov_config, rsyncdir, pc, env, start_env,
                   cov, workerinput, workeroutput, is_collocated, stream, result>>

\* testnodedown(node, error) for the node of worker w; r is the random draw.
DistMaster_testnodedown(w, r) ==
    /\ variant = "DistMaster"
    /\ pc[M] \in {"started", "paused"}
    /\ pc[w] \in {"finished", "crashed"}
    /\ w \notin down
    /\ down' = down \cup {w}
    /\ LET output == workeroutput[w]
       IN IF worker_failed(output)
          THEN /\ failed_workers' = Append(failed_workers, w)
               /\ UNCHANGED <<sess, fs, node_descs>>
          ELSE /\ IF "cov_worker_data" \in DOMAIN output
                  THEN LET c0 == Coverage(M, cov_source[M], cov_branch,
                                          data_suffix(host[M], pid[M], r,
                                                      output["cov_worker_node_id"]),
                                          <<>>, cov_config[M])
                           c1 == cov_start(c0)
                           data == read_fileobj(output["cov_worker_data"])
                           c2 == cov_stop([c1 EXCEPT !.data = @ \cup data])
                       IN /\ fs' = cov_save(M, c2, fs)
                          /\ sess' = [sess EXCEPT ![cov[M]].paths_source =
                                        Append(@, output["cov_worker_path"])]
                  ELSE UNCHANGED <<sess, fs>>
               /\ node_descs' = node_descs \cup
                     {get_node_desc(rinfo[host[w]].platform, rinfo[host[w]].version_info)}
               /\ UNCHANGED failed_workers
    /\ UNCHANGED <<config_vars, cov_source, cov_config, rsyncdir, pc, env, start_env,
                   cov, workerinput, workeroutput, is_collocated, stream, result>>

\* DistMaster_finish_load with the combining session loading before the
\* primary session has saved.
DistMaster_finish_load_before_save ==
    /\ variant = "DistMaster"
    /\ pc[M] = "started"
    /\ down = Workers
    /\ LET primary == cov_stop(sess["primary"])
       IN /\ sess' = [sess EXCEPT !["primary"] = primary,
                                  !["combining"] = cov_load(M, @, fs)]
          /\ fs' = cov_save(M, primary, fs)
    /\ cov' = [cov EXCEPT ![M] = "combining"]
    /\ pc' = [pc EXCEPT ![M] = "combining"]
    /\ UNCHANGED <<config_vars, cov_source, cov_config, rsyncdir, env, start_env,
                   workerinput, workeroutput, is_collocated, node_descs,
                   failed_workers, down, stream, result>>

\* DistMaster.finish up to the load of the combining session: stop, save,
\* switch self.cov to the combining session, load. The orchestrator ends the
\* master's session after every node went down.
DistMaster_finish_load ==
    /\ variant = "DistMaster"
    /\ pc[M] = "started"
    /\ down = Workers
    /\ LET primary == cov_stop(sess["primary"])
           files == cov_save(M, primary, fs)
       IN /\ fs' = files
          /\ sess' = [sess EXCEPT !["primary"] = primary,
                                  !["combining"] = cov_load(M, @, files)]
    /\ cov' = [cov EXCEPT ![M] = "combining"]
    /\ pc' = [pc EXCEPT ![M] = "combining"]
    /\ UNCHANGED <<config_vars, cov_source, cov_config, rsyncdir, env, start_env,
                   workerinput, workeroutput, is_collocated, node_descs,
                   failed_workers, down, stream, result>>

\* The rest of DistMaster.finish: combine, save.
DistMaster_finish_combine ==
    /\ variant = "DistMaster"
    /\ pc[M] = "combining"
    /\ LET combined == cov_combine_data(M, Cov(M), fs)
       IN /\ sess' = [sess EXCEPT ![cov[M]] = combined]
          /\ fs' = cov_save(M, combined, cov_combine_files(M, Cov(M), fs))
    /\ pc' = [pc EXCEPT ![M] = "finished"]
    /\ UNCHANGED <<config_vars, cov_source, cov_config, rsyncdir, env, start_env, cov,
                   workerinput, workeroutput, is_collocated, node_descs,
                   failed_workers, down, stream, result>>

(***************************************************************************)
(* DistWorker: a worker of a distributed run.                              *)
(***************************************************************************)
\* collocated without the comparison of the top directories.
collocated_by_host_only(hostname, worker_topdir, input) ==
    hostname = input["cov_master_host"]

\* "Determine whether we are collocated with master."
collocated(hostname, worker_topdir, input) ==
    hostname = input["cov_master_host"] /\ worker_topdir = input["cov_master_topdir"]

\* "Rewrite master paths to worker paths": one path.
rewrite(path, master_topdir, worker_topdir) ==
    str_replace(path, master_topdir, worker_topdir)

\* The source roots of a worker that is not collocated.
rewrite_source(source, master_topdir, worker_topdir) ==
    IF source.is_none THEN source
    ELSE SourceList([i \in 1..Len(source.roots) |->
                        rewrite(source.roots[i], master_topdir, worker_topdir)])

DistWorker_start(w) ==
    /\ pc[w] = "created"
    /\ "cov_master_host" \in DOMAIN workerinput[w]
    /\ LET colloc == collocated(host[w], topdir[w], workerinput[w])
           master_topdir == workerinput[w]["cov_master_topdir"]
           source == IF colloc THEN cov_source[w]
                     ELSE rewrite_source(cov_source[w], master_topdir, topdir[w])
           config == IF colloc THEN cov_config[w]
                     ELSE rewrite(cov_config[w], master_topdir, topdir[w])
           c0 == Coverage(w, source, cov_branch, SuffixTrue, <<>>, config)
           c1 == cov_start(erase_or_load_data(w, c0, fs))
       IN /\ is_collocated' = [is_collocated EXCEPT ![w] = colloc]
          /\ cov_source' = [cov_source EXCEPT ![w] = source]
          /\ cov_config' = [cov_config EXCEPT ![w] = config]
          /\ sess' = [sess EXCEPT ![w] = c1]
          /\ fs' = erase_or_load_files(w, c0, fs)
          /\ env' = [env EXCEPT ![w] = set_env(@, w, source, config, c1)]
    /\ cov' = [cov EXCEPT ![w] = w]
    /\ start_env' = [start_env EXCEPT ![w] = env'[w]]
    /\ pc' = [pc EXCEPT ![w] = "started"]
    /\ UNCHANGED <<config_vars, rsyncdir, workerinput, workeroutput, node_descs,
                   failed_workers, down, stream, result>>

\* collocated_output with the path and the data a remote worker sends.
collocated_output_with_data(w) ==
    [cov_worker_path |-> topdir[w],
     cov_worker_node_id |-> nodeid[w],
     cov_worker_data |-> write_fileobj(sess[w].data)]

\* What a collocated worker reports.
collocated_output(w) == [cov_worker_node_id |-> nodeid[w]]

\* What a worker that is not collocated reports.
remote_output(w, s) ==
    [cov_worker_path |-> topdir[w],
     cov_worker_node_id |-> nodeid[w],
     cov_worker_data |-> write_fileobj(s.data)]

\* DistWorker_finish_stop reporting the node identifier of a collocated
\* worker without saving its data file.
DistWorker_finish_without_save(w) ==
    /\ w \in Workers
    /\ pc[w] = "started"
    /\ env' = [env EXCEPT ![w] = unset_env(@)]
    /\ LET stopped == cov_stop(Cov(w))
       IN /\ sess' = [sess EXCEPT ![cov[w]] = stopped]
          /\ IF is_collocated[w]
             THEN /\ workeroutput' = [workeroutput EXCEPT ![w] =
                                         Update(@, collocated_output(w))]
                  /\ pc' = [pc EXCEPT ![w] = "finished"]
                  /\ UNCHANGED fs
             ELSE /\ pc' = [pc EXCEPT ![w] = "combining"]
                  /\ UNCHANGED <<fs, workeroutput>>
    /\ UNCHANGED <<config_vars, cov_source, cov_config, rsyncdir, start_env, cov,
                   workerinput, is_collocated, node_descs, failed_workers, down,
                   stream, result>>

\* DistWorker.finish up to the branch on is_collocated: unset_env, stop; a
\* collocated worker saves and reports, and is done.
DistWorker_finish_stop(w) ==
    /\ w \in Workers
    /\ pc[w] = "started"
    /\ env' = [env EXCEPT ![w] = unset_env(@)]
    /\ LET stopped == cov_stop(Cov(w))
       IN /\ sess' = [sess EXCEPT ![cov[w]] = stopped]
          /\ IF is_collocated[w]
             THEN /\ fs' = cov_save(w, stopped, fs)
                  /\ workeroutput' = [workeroutput EXCEPT ![w] =
                                         Update(@, collocated_output(w))]
                  /\ pc' = [pc EXCEPT ![w] = "finished"]
             ELSE /\ pc' = [pc EXCEPT ![w] = "combining"]
                  /\ UNCHANGED <<fs, workeroutput>>
    /\ UNCHANGED <<config_vars, cov_source, cov_config, rsyncdir, start_env, cov,
                   workerinput, is_collocated, node_descs, failed_workers, down,
                   stream, result>>

\* The rest of DistWorker.finish when not collocated: combine, save, report
\* the node identifier, the top directory and the serialized data.
DistWorker_finish_combine(w) ==
    /\ w \in Workers
    /\ pc[w] = "combining"
    /\ LET combined == cov_combine_data(w, Cov(w), fs)
       IN /\ sess' = [sess EXCEPT ![cov[w]] = combined]
          /\ fs' = cov_save(w, combined, cov_combine_files(w, Cov(w), fs))
          /\ workeroutput' = [workeroutput EXCEPT ![w] =
                                 Update(@, remote_output(w, combined))]
    /\ pc' = [pc EXCEPT ![w] = "finished"]
    /\ UNCHANGED <<config_vars, cov_source, cov_config, rsyncdir, env, start_env, cov,
                   workerinput, is_collocated, node_descs, failed_workers, down,
                   stream, result>>

\* DistWorker_summary_stream writing the section header of the base class.
DistWorker_summary_writes_header(w, st) == sep(st, "-", <<"coverage">>)

\* DistWorker.summary(*args, **kwargs): "Only the master reports so do nothing."
DistWorker_summary_stream(w, st) == st
DistWorker_summary_result(w) == ReturnedNone

DistWorker_summary(w) ==
    /\ w \in Workers
    /\ variant = "DistMaster"
    /\ stream' = [stream EXCEPT ![w] = DistWorker_summary_stream(w, @)]
    /\ result' = DistWorker_summary_result(w)
    /\ UNCHANGED <<config_vars, cov_source, cov_config, rsyncdir, pc, env, start_env,
                   cov, sess, fs, workerinput, workeroutput, is_collocated,
                   node_descs, failed_workers, down>>

\* A worker process dies (or its plugin never ran): its controller, its
\* session, its environment and whatever it measured are gone, and it
\* reports nothing more. The files it wrote stay.
WorkerCrash(w) ==
    /\ variant = "DistMaster"
    /\ pc[w] \in {"created", "started", "paused", "combining"}
    /\ pc' = [pc EXCEPT ![w] = "crashed"]
    /\ sess' = [sess EXCEPT ![w] = NoSession]
    /\ cov' = [cov EXCEPT ![w] = None]
    /\ env' = [env EXCEPT ![w] = EmptyDict]
    /\ start_env' = [start_env EXCEPT ![w] = EmptyDict]
    /\ is_collocated' = [is_collocated EXCEPT ![w] = FALSE]
    /\ stream' = [stream EXCEPT ![w] = <<>>]
    /\ UNCHANGED <<config_vars, cov_source, cov_config, rsyncdir, fs, workerinput,
                   workeroutput, node_descs, failed_workers, down, result>>

(***************************************************************************)
(* _backup(obj, attr): the attribute is replaced by a shallow copy for the *)
(* time of a with block and put back when the block is left. The objects   *)
(* are lists on a heap; an item is a value, or the reference to the nested *)
(* list.                                                                   *)
(***************************************************************************)
\* Longest list a with block builds.
MaxItems == 2
\* The addresses of the heap: the object obj.attr refers to at first, the
\* object copy.copy allocates, an object the with block may rebind obj.attr
\* to, and the list nested in the first.
Addrs == {"orig", "copy", "other", "inner"}
\* The reference to the nested list, as an item.
InnerRef == "@inner"
Values == {"x", "y"}
Items == Values \cup {InnerRef}

\* setattr without the copy: obj.attr keeps referring to the object itself.
setattr_without_copy(ref, fresh) == ref

\* The object obj.attr refers to after setattr(obj, attr, copy.copy(backup)),
\* where copy.copy allocated its result at fresh.
setattr_copy(ref, fresh) == fresh

\* copy.copy(h[ref]) allocated at fresh: a new list of the same items; a
\* nested list is shared, not copied.
copy_copy(h, ref, fresh) == [h EXCEPT ![fresh] = h[ref]]

\* backup = getattr(obj, attr); setattr(obj, attr, copy.copy(backup)); yield
backup_enter ==
    /\ bpc = "before"
    /\ backup' = attr
    /\ heap' = copy_copy(heap, attr, "copy")
    /\ attr' = setattr_copy(attr, "copy")
    /\ bpc' = "body"
    /\ UNCHANGED <<ctl_vars, entry>>

\* copy.copy raises: the finally clause runs and the exception leaves _backup.
backup_enter_copy_raises ==
    /\ bpc = "before"
    /\ backup' = attr
    /\ attr' = attr
    /\ bpc' = "raised"
    /\ UNCHANGED <<ctl_vars, heap, entry>>

\* The with block rebinds the attribute: obj.attr = other.
body_setattr(a) ==
    /\ bpc = "body"
    /\ attr # a
    /\ attr' = a
    /\ UNCHANGED <<ctl_vars, heap, backup, entry, bpc>>

\* The with block mutates the attribute's object: obj.attr.append(x).
body_append(x) ==
    /\ bpc = "body"
    /\ Len(heap[attr]) < MaxItems
    /\ heap' = [heap EXCEPT ![attr] = Append(@, x)]
    /\ UNCHANGED <<ctl_vars, attr, backup, entry, bpc>>

\* The with block mutates the attribute's object: del obj.attr[0].
body_del ==
    /\ bpc = "body"
    /\ heap[attr] # <<>>
    /\ heap' = [heap EXCEPT ![attr] = Tail(@)]
    /\ UNCHANGED <<ctl_vars, attr, backup, entry, bpc>>

\* The with block mutates the list nested in the attribute's object.
body_append_nested(x) ==
    /\ bpc = "body"
    /\ \E i \in 1..Len(heap[attr]) : heap[attr][i] = InnerRef
    /\ Len(heap["inner"]) < MaxItems
    /\ heap' = [heap EXCEPT !["inner"] = Append(@, x)]
    /\ UNCHANGED <<ctl_vars, attr, backup, entry, bpc>>

\* finally: setattr(obj, attr, backup), when the with block ends normally.
backup_exit ==
    /\ bpc = "body"
    /\ attr' = backup
    /\ bpc' = "exited"
    /\ UNCHANGED <<ctl_vars, heap, backup, entry>>

\* finally: setattr(obj, attr, backup), when the with block raises; the
\* exception then leaves _backup.
backup_exit_raises ==
    /\ bpc = "body"
    /\ attr' = backup
    /\ bpc' = "raised"
    /\ UNCHANGED <<ctl_vars, heap, backup, entry>>

\* No _backup scope is in use.
NoScope ==
    /\ heap = [a \in Addrs |-> <<>>]
    /\ attr = "orig"
    /\ backup = None
    /\ entry = [ref |-> "orig", items |-> <<>>]
    /\ bpc = "before"

(***************************************************************************)
(* Initial states and specifications.                                      *)
(***************************************************************************)
\* Every place a data file or a config file can be in.
Locations == Hosts \X TopDirs
\* A previous run left a canonical data file in every place.
StaleFiles ==
    [k \in {FileKey(l[1], abspath(l[2], DataFileName), <<>>) : l \in Locations}
        |-> StaleData]
\* The config file is present in every place, or in none.
AllRcFiles == {<<l[1], abspath(l[2], RcName)>> : l \in Locations}

\* The state after the controllers were constructed, for a run configuration
\* and a placement of the processes drawn from the given sets.
InitFrom(Variants, Configs, Placements) ==
    /\ variant \in Variants
    /\ cov_append \in BOOLEAN
    /\ \E rc \in Configs :
          /\ cov_source = [p \in Procs |-> rc.source]
          /\ cov_config = [p \in Procs |-> rc.config]
          /\ cov_branch = rc.branch
          /\ cov_report = rc.report
          /\ rcfiles = IF rc.config_exists THEN AllRcFiles ELSE {}
    /\ \E pl \in Placements :
          \* a Central run has no workers: their placement is immaterial
          /\ variant = "Central" => \A w \in Workers : pl[w] = pl[M]
          /\ host = [p \in Procs |-> pl[p][1]]
          /\ topdir = [p \in Procs |-> pl[p][2]]
    /\ rsyncdir = <<>>
    /\ pc = [p \in Procs |-> "created"]
    /\ env = [p \in Procs |-> EmptyDict]
    /\ start_env = [p \in Procs |-> EmptyDict]
    /\ cov = [p \in Procs |-> None]
    /\ sess = [i \in SessionIds |-> NoSession]
    /\ fs = StaleFiles
    /\ workerinput = [w \in Workers |-> EmptyDict]
    /\ workeroutput = [w \in Workers |-> EmptyDict]
    /\ is_collocated = [w \in Workers |-> FALSE]
    /\ node_descs = {}
    /\ failed_workers = <<>>
    /\ down = {}
    /\ stream = [p \in Procs |-> <<>>]
    /\ result = NoCall

\* The run configurations of Spec: everything off and no config file, or two
\* source roots under the master's top directory, a config file, branch
\* coverage and a report.
RunConfigs ==
    {[source |-> NoSource, config |-> RcName, config_exists |-> FALSE,
      branch |-> FALSE, report |-> FALSE],
     [source |-> SourceList(<<DirM \o <<"/", "m">>, DirM \o <<"/", "w">>>>),
      config |-> RcName, config_exists |-> TRUE, branch |-> TRUE, report |-> TRUE]}

\* The placements of Spec: the master on host A in /m; each worker beside it,
\* on the same host in another directory, or on another host.
RunPlaces == {<<"A", DirM>>, <<"A", DirW>>, <<"B", DirM>>}
RunPlacements == {pl \in [Procs -> RunPlaces] : pl[M] = <<"A", DirM>>}

Init == InitFrom({"Central", "DistMaster"}, RunConfigs, RunPlacements) /\ NoScope

Next ==
    \/ Central_start
    \/ Central_finish_load
    \/ Central_finish_combine
    \/ DistMaster_start
    \/ DistMaster_finish_load
    \/ DistMaster_finish_combine
    \/ summary(M)
    \/ \E p \in Procs : pause(p) \/ resume(p)
    \/ \E p \in Procs, k \in Keys : Measure(p, k)
    \/ \E w \in Workers : configure_node(w)
    \/ \E w \in Workers, r \in 0..MaxRand : DistMaster_testnodedown(w, r)
    \/ \E w \in Workers : DistWorker_start(w)
    \/ \E w \in Workers : DistWorker_finish_stop(w)
    \/ \E w \in Workers : DistWorker_finish_combine(w)
    \/ \E w \in Workers : DistWorker_summary(w)
    \/ \E w \in Workers : WorkerCrash(w)

Spec == Init /\ [][Next]_vars

(***************************************************************************)
(* The start of a worker, over every master and worker placement and every *)
(* source root up to MaxPathLen characters.                                *)
(***************************************************************************)
StartConfigPaths == {RcName, DirM \o <<"/">> \o RcName, DirW \o DirM \o <<"/">> \o RcName}
StartSources == {NoSource} \cup {SourceList(<<r>>) : r \in SeqsUpTo(Alphabet, MaxPathLen)}
StartConfigs ==
    {[source |-> src, config |-> cfg, config_exists |-> TRUE,
      branch |-> FALSE, report |-> FALSE] : src \in StartSources, cfg \in StartConfigPaths}
\* w2 sits beside the master; the master and w1 are placed freely.
StartPlacements == {pl \in [Procs -> Locations] : pl["w2"] = pl[M]}

InitWorkerStart == InitFrom({"DistMaster"}, StartConfigs, StartPlacements) /\ NoScope

NextWorkerStart ==
    \/ DistMaster_start
    \/ \E w \in Workers : configure_node(w)
    \/ \E w \in Workers : DistWorker_start(w)

SpecWorkerStart == InitWorkerStart /\ [][NextWorkerStart]_vars

(***************************************************************************)
(* Properties.                                                             *)
(***************************************************************************)
\* The workers that reported a node identifier.
Reported == {w \in Workers : "cov_worker_node_id" \in DOMAIN workeroutput[w]}
MasterDone == variant = "DistMaster" /\ pc[M] = "finished"
EnvCleared(p) == DOMAIN env[p] \cap EnvVars = {}

\* C1: once every worker is down and the master has run finish(), the dataset
\* of the master's active session, and the canonical data file, hold exactly
\* the union of what the master's primary session measured and of what every
\* worker that reported a node identifier measured.
C1_MergedDataset ==
    MasterDone =>
        /\ Cov(M).data = sess["primary"].data \cup UNION {sess[w].data : w \in Reported}
        /\ CanonicalKey(M, Cov(M)) \in DOMAIN fs
        /\ fs[CanonicalKey(M, Cov(M))] = Cov(M).data

\* C1 witness: the master has finished with one collocated and one remote
\* worker reporting, and a key that only the remote worker hit is merged.
C1_Witness ==
    /\ MasterDone
    /\ Reported = Workers
    /\ \E w, v \in Workers :
          /\ is_collocated[w] /\ ~is_collocated[v]
          /\ \E k \in Keys : /\ k \in sess[v].data
                             /\ k \notin sess[w].data \cup sess["primary"].data
                             /\ k \in Cov(M).data

EnvPopulated(p) ==
    /\ {"COV_CORE_SOURCE", "COV_CORE_CONFIG", "COV_CORE_DATAFILE"} \subseteq DOMAIN env[p]
    /\ env[p]["COV_CORE_SOURCE"] =
          IF cov_source[p].is_none THEN pathsep ELSE str_join(pathsep, cov_source[p].roots)
    /\ env[p]["COV_CORE_CONFIG"] =
          IF exists(p, cov_config[p]) THEN abspath(topdir[p], cov_config[p]) ELSE pathsep
    /\ ("COV_CORE_BRANCH" \in DOMAIN env[p]) = cov_branch

\* C3: start() of every variant leaves the environment channel populated.
C3_StartPopulatesEnv ==
    [][\A p \in Procs : (pc[p] = "created" /\ pc'[p] = "started") => EnvPopulated(p)']_vars

\* C4: after finish() of every variant none of the four variables is set.
C4_FinishClearsEnv == \A p \in Procs : pc[p] = "finished" => EnvCleared(p)

\* C5: whenever a controller is in Started, after any number of pause/resume
\* pairs, the environment channel is as start() left it and the session
\* measures; while it is Paused none of the four variables is set.
C5_PauseResumeRoundTrip ==
    \A p \in Procs :
        /\ pc[p] = "started" => (env[p] = start_env[p] /\ Cov(p).started)
        /\ pc[p] = "paused" => EnvCleared(p)

\* C6: no two processes combine at the same time against the same canonical
\* data file, and the master combines only after every worker has finished.
C6_SingleCombiner ==
    /\ \A p, q \in Procs :
          (p # q /\ pc[p] = "combining" /\ pc[q] = "combining")
              => ~(host[p] = host[q] /\ Cov(p).data_file = Cov(q).data_file)
    /\ (variant = "DistMaster" /\ pc[M] = "combining")
          => \A w \in Workers : pc[w] \in {"finished", "crashed"}

\* C7: a started worker is collocated iff its host name equals the host name
\* the master reported and its top directory equals the top directory the
\* master reported, which are the master's own.
C7_Collocation ==
    \A w \in Workers :
        pc[w] = "started" =>
            /\ workerinput[w]["cov_master_host"] = host[M]
            /\ workerinput[w]["cov_master_topdir"] = topdir[M]
            /\ is_collocated[w] = (host[w] = host[M] /\ topdir[w] = topdir[M])

\* C7 witnesses: one started worker for each way of (not) being collocated.
C7_Witness ==
    \E w \in Workers :
        /\ pc[w] = "started"
        /\ ~is_collocated[w]
        /\ host[w] = host[M]
        /\ topdir[w] # topdir[M]

\* Replacement of the master's top directory where it is the prefix of path.
PrefixRewrite(path, master_topdir, worker_topdir) ==
    IF IsPrefix(master_topdir, path)
    THEN worker_topdir \o SubSeq(path, Len(master_topdir) + 1, Len(path))
    ELSE path

\* C8: a started worker that is not collocated holds each source root and the
\* config path with the master's top-directory prefix replaced by its own top
\* directory, and unchanged where the master's top directory is no prefix; a
\* collocated worker holds them unchanged.
C8_PrefixRewriting ==
    \A w \in Workers :
        pc[w] = "started" =>
            IF is_collocated[w]
            THEN cov_source[w] = cov_source[M] /\ cov_config[w] = cov_config[M]
            ELSE /\ cov_config[w] = PrefixRewrite(cov_config[M], topdir[M], topdir[w])
                 /\ cov_source[w].is_none = cov_source[M].is_none
                 /\ Len(cov_source[w].roots) = Len(cov_source[M].roots)
                 /\ \A i \in 1..Len(cov_source[M].roots) :
                       cov_source[w].roots[i] =
                           PrefixRewrite(cov_source[M].roots[i], topdir[M], topdir[w])

\* C9: a worker's output is empty until it has finished; then a collocated
\* worker has written the node identifier alone, and a worker that is not
\* collocated the node identifier, its top directory and its serialized
\* dataset: the payload is present iff the worker decided it is not collocated.
C9_OutputShape ==
    \A w \in Workers :
        /\ pc[w] # "finished" => DOMAIN workeroutput[w] = {}
        /\ pc[w] = "finished" =>
              /\ ("cov_worker_data" \in DOMAIN workeroutput[w]) = ~is_collocated[w]
              /\ workeroutput[w]["cov_worker_node_id"] = nodeid[w]
              /\ IF is_collocated[w]
                 THEN DOMAIN workeroutput[w] = {"cov_worker_node_id"}
                 ELSE /\ DOMAIN workeroutput[w] =
                            {"cov_worker_node_id", "cov_worker_path", "cov_worker_data"}
                      /\ workeroutput[w]["cov_worker_path"] = topdir[w]
                      /\ read_fileobj(workeroutput[w]["cov_worker_data"]) = sess[w].data

\* C9 witness: a collocated and a remote worker have both finished, the
\* remote one with measured data in its payload.
C9_Witness ==
    \E w, v \in Workers :
        /\ pc[w] = "finished" /\ pc[v] = "finished"
        /\ is_collocated[w] /\ ~is_collocated[v]
        /\ \E k \in Keys : k \in read_fileobj(workeroutput[v]["cov_worker_data"])

\* C10: a call of summary() on a worker writes nothing to the stream, returns
\* None and changes nothing of any controller, whatever state the worker is in.
C10_WorkerSummaryNoOp ==
    [][\A w \in Workers :
          DistWorker_summary(w) =>
              /\ result' = ReturnedNone
              /\ UNCHANGED <<stream, pc, env, cov, sess, fs, cov_source, cov_config,
                             workerinput, workeroutput, is_collocated, node_descs,
                             failed_workers, down, rsyncdir>>
      ]_vars

\* C10 witness: summary() has returned None while one worker is paused and the
\* other has finished.
C10_Witness ==
    /\ result = ReturnedNone
    /\ \E w, v \in Workers : pc[w] = "paused" /\ pc[v] = "finished"

\* The node description of the interpreter that runs process p.
NodeDesc(p) == get_node_desc(rinfo[host[p]].platform, rinfo[host[p]].version_info)

\* C11: after a distributed run the set of node descriptions holds exactly
\* the description of the master's own run and the description of every
\* worker that reported a node identifier, identical descriptions once.
C11_NodeDescriptors ==
    MasterDone => node_descs = {NodeDesc(M)} \cup {NodeDesc(w) : w \in Reported}

\* The entries of a sequence, as a set.
Range(seq) == {seq[i] : i \in 1..Len(seq)}

\* The workers whose payload testnodedown has processed.
PayloadProcessed ==
    {w \in down : {"cov_worker_node_id", "cov_worker_data"} \subseteq DOMAIN workeroutput[w]}

\* C12: after finish() of the master, the 'source' path entries of the
\* controller's active session (the session summary() reads) include the
\* master's own top directory and the reported top directory of every worker
\* whose payload testnodedown processed.
C12_SourceRootsRegistered ==
    MasterDone =>
        /\ topdir[M] \in Range(Cov(M).paths_source)
        /\ \A w \in PayloadProcessed :
              workeroutput[w]["cov_worker_path"] \in Range(Cov(M).paths_source)

\* The number of header lines summary() writes.
HeaderLines ==
    IF ~cov_report THEN 0
    ELSE IF Cardinality(node_descs) = 1 THEN 1 ELSE 1 + Cardinality(node_descs)

\* C13: a call of summary() on Central or the master returns the totals of
\* the report over the active session's dataset, whether or not workers
\* failed. With report options set it first writes a header: one line naming
\* the description when there is exactly one, otherwise a title and one line
\* per description; and, iff failed_workers is not empty, after the report a
\* block of a title, the guidance and exactly one line per failed worker.
C13_Summary ==
    [][(stream[M] = <<>> /\ stream'[M] # <<>>) =>
          LET st == stream'[M]
              h == HeaderLines
              f == Len(failed_workers)
          IN /\ result' = Totals(Cardinality(Cov(M).data))
             /\ Len(st) = h + 1 + (IF cov_report /\ f > 0 THEN 2 + f ELSE 0)
             /\ st[h + 1] = <<"report", Cardinality(Cov(M).data)>>
             /\ cov_report =>
                   /\ IF Cardinality(node_descs) = 1
                      THEN \E d \in node_descs : st[1] = <<"sep", "-", <<"coverage: ", d>>>>
                      ELSE /\ st[1] = <<"sep", "-", <<"coverage">>>>
                           /\ {st[i] : i \in 2..h} = {<<"sep", " ", d>> : d \in node_descs}
                   /\ f > 0 =>
                         /\ st[h + 2] = <<"sep", "-", <<"coverage: failed workers">>>>
                         /\ \A i \in 1..f : st[h + 3 + i] = <<"write", failed_workers[i]>>
      ]_vars

\* C13 witness: summary() has returned totals that count a measured key, and
\* has written the header and the failed-workers block, after a run in which
\* one worker failed and the other reported.
C13_Witness ==
    /\ MasterDone
    /\ cov_report
    /\ stream[M] # <<>>
    /\ Len(failed_workers) = 1
    /\ Cardinality(node_descs) = 1
    /\ \E n \in 1..Cardinality(Keys) : result = Totals(n)

\* The collocated workers whose output holds the node identifier.
CollocatedReported == {w \in Reported : is_collocated[w]}
\* The suffixed data file a worker's session saves.
WorkerFile(w) == FileKey(host[w], sess[w].data_file, SaveSuffix(w, sess[w]))

C15_ActiveSessionAfterFinish ==
    [][/\ (pc[M] \in {"combining", "finished"} =>
              /\ cov[M] = "combining"
              /\ ~sess["primary"].started
              /\ Cov(M).data_file = sess["primary"].data_file
              /\ Cov(M).data_suffix = SuffixNone
              /\ sess["primary"].data \subseteq Cov(M).data)'
       /\ (pc[M] = "started" /\ pc'[M] = "combining") =>
              /\ fs'[CanonicalKey(M, sess["primary"])] = sess["primary"].data
              /\ Cov(M)'.data = sess["primary"].data
       /\ \A w \in Workers :
             (pc[w] \in {"started", "combining"} /\ pc'[w] \in {"combining", "finished"})
                 => cov'[w] = cov[w] /\ cov[w] = w
      ]_vars

\* C15 witness: the master has finished with a key in its merged dataset that
\* only its primary session measured, and a worker has finished too.
C15_Witness ==
    /\ MasterDone
    /\ cov[M] = "combining"
    /\ \E k \in Keys :
          /\ k \in sess["primary"].data
          /\ \A w \in Workers : k \notin sess[w].data
          /\ k \in Cov(M).data
    /\ \E w \in Workers : pc[w] = "finished" /\ cov[w] = w

\* C16: when the master processes the disconnect of a worker whose output
\* holds a node identifier and no payload, it adds the worker's node
\* description and changes nothing else: no session, no file, no source
\* root, not the failed-worker list.
C16_CollocatedDisconnectFrame ==
    [][\A w \in Workers :
          (/\ w \in down' /\ w \notin down
           /\ "cov_worker_node_id" \in DOMAIN workeroutput[w]
           /\ "cov_worker_data" \notin DOMAIN workeroutput[w])
              => /\ node_descs' = node_descs \cup {NodeDesc(w)}
                 /\ UNCHANGED <<sess, fs, failed_workers, cov, env, pc, rsyncdir,
                                cov_source, cov_config, workerinput, workeroutput,
                                stream, result>>
      ]_vars

\* C16 witness: the master has processed the disconnect of a collocated
\* worker that reported its node identifier alone, while the suffixed file
\* the worker saved is still on disk.
C16_Witness ==
    \E w \in down :
        /\ DOMAIN workeroutput[w] = {"cov_worker_node_id"}
        /\ NodeDesc(w) \in node_descs
        /\ failed_workers = <<>>
        /\ WorkerFile(w) \in DOMAIN fs

\* The payload files on disk: the suffixed files beside the master's data
\* file that no session saved under its own automatic suffix.
PayloadFiles ==
    {k \in Partials(M, sess["primary"], fs) :
        \A p \in Procs : k.suffix # <<host[p], pid[p]>>}

\* C17: the suffixes the master allocates for the payloads of two workers
\* with distinct node identifiers differ for every pair of random draws; so,
\* until the master combines, every payload testnodedown processed has a
\* payload file of its own on disk.
C17_DistinctSuffixes ==
    /\ \A w, v \in Workers : \A r1, r2 \in 0..MaxRand :
          nodeid[w] # nodeid[v] =>
              data_suffix(host[M], pid[M], r1, nodeid[w]) #
                  data_suffix(host[M], pid[M], r2, nodeid[v])
    /\ (variant = "DistMaster" /\ pc[M] \in {"started", "paused"}) =>
          Cardinality(PayloadFiles) = Cardinality(PayloadProcessed)

\* C17 witness: the payloads of both workers were saved under suffixes with
\* the same random draw, and both files are on disk.
C17_Witness ==
    /\ variant = "DistMaster"
    /\ pc[M] = "started"
    /\ PayloadProcessed = Workers
    /\ \E r \in 0..MaxRand : \A w \in Workers :
          FileKey(host[M], sess["primary"].data_file,
                  data_suffix(host[M], pid[M], r, nodeid[w])) \in PayloadFiles

\* The sessions the controller of process p constructs.
SessionsOf(p) == IF p = M THEN {"primary", "combining"} ELSE {p}
\* Process p takes its start() step.
Starts(p) == pc[p] = "created" /\ pc'[p] = "started"

DownWithoutNodeId == down \ Reported

\* C19: every disconnect the master processes classifies the worker in
\* exactly one way, by its output alone: without a node identifier the worker
\* is appended to failed_workers and node_descs stays; with one its node
\* description is added and failed_workers stays. At every moment
\* failed_workers holds exactly the workers that disconnected without a node
\* identifier, each once.
C19_DisconnectClassification ==
    [][/\ \A w \in Workers :
             (w \in down' /\ w \notin down) =>
                 IF "cov_worker_node_id" \in DOMAIN workeroutput[w]
                 THEN /\ node_descs' = node_descs \cup {NodeDesc(w)}
                      /\ failed_workers' = failed_workers
                 ELSE /\ failed_workers' = Append(failed_workers, w)
                      /\ node_descs' = node_descs
                      /\ UNCHANGED <<sess, fs, cov, env, pc>>
       /\ Range(failed_workers') = DownWithoutNodeId'
       /\ Len(failed_workers') = Cardinality(DownWithoutNodeId')
       /\ down' = down => (failed_workers' = failed_workers /\ node_descs' \in
                              {node_descs, node_descs \cup {NodeDesc(M)}})
      ]_vars

\* C19 witness: the master has processed the disconnects of both workers, of
\* which one is classified as failed and the other as a contributor.
C19_Witness ==
    /\ variant = "DistMaster"
    /\ pc[M] = "started"
    /\ down = Workers
    /\ \E w, v \in Workers :
          /\ failed_workers = <<w>>
          /\ v \in Reported
          /\ NodeDesc(v) \in node_descs

(***************************************************************************)
(* One use of _backup, over every list of up to two items the attribute    *)
(* may hold at first.                                                      *)
(***************************************************************************)
InitBackup ==
    /\ InitFrom({"Central"}, {CHOOSE rc \in RunConfigs : ~rc.report}, RunPlacements)
    /\ ~cov_append
    /\ \E items \in {<<>>} \cup SeqsUpTo(Items, 2), nested \in {<<>>} \cup SeqsUpTo(Values, 1) :
          /\ heap = [a \in Addrs |-> IF a = "orig" THEN items
                                     ELSE IF a = "inner" THEN nested
                                     ELSE IF a = "other" THEN <<"y">> ELSE <<>>]
          /\ entry = [ref |-> "orig", items |-> items]
    /\ attr = "orig"
    /\ backup = None
    /\ bpc = "before"

NextBackup ==
    \/ backup_enter
    \/ backup_enter_copy_raises
    \/ \E a \in {"other"} : body_setattr(a)
    \/ \E x \in Items : body_append(x)
    \/ body_del
    \/ \E x \in Values : body_append_nested(x)
    \/ backup_exit
    \/ backup_exit_raises

SpecBackup == InitBackup /\ [][NextBackup]_vars

\* C20: when the scope of _backup is left, normally or by an exception, the
\* attribute refers to the object it referred to at entry, and that object
\* holds the items it held at entry; inside the scope the attribute refers
\* to another object, which at entry holds the same items, so that rebinding
\* the attribute and adding or deleting items of its object leave the
\* original object as it was.
C20_BackupRestores ==
    [][/\ (bpc \in {"exited", "raised"} => attr = entry.ref)'
       /\ (bpc = "body" => (backup = entry.ref /\ attr # entry.ref))'
       /\ heap'[entry.ref] = entry.items
       /\ (bpc = "before" /\ bpc' = "body") => heap'[attr'] = entry.items
      ]_vars

\* C20 witness: a with block that added an item to the attribute's object,
\* rebound the attribute and added an item to the new object was left by an
\* exception, and the attribute is back at the original object, which is
\* not empty.
C20_Witness ==
    /\ bpc = "raised"
    /\ backup = entry.ref
    /\ attr = entry.ref
    /\ entry.items # <<>>
    /\ Len(heap["copy"]) > Len(entry.items)
    /\ Len(heap["other"]) > 1

=============================================================================
